---------------------------- MODULE Spec2Model ----------------------------
(***************************************************************************)
(* The link tester of src/tester.py: four protocol probes                  *)
(* (test_vless_link, test_vmess_link, test_trojan_link, test_ss_link) run  *)
(* by the orchestrator test_links_ping on a ThreadPoolExecutor.            *)
(*                                                                         *)
(* A probe is modelled step by step: one action per blocking call          *)
(* (gethostbyname, connect, wrap_socket, send, recv); the code between the *)
(* return of one blocking call and the entry of the next is part of the    *)
(* action that ends the first.  What the network answers, and how long it  *)
(* takes, is chosen by the environment.                                    *)
(*                                                                         *)
(* Time is counted in ticks of half a millisecond, so that round() has     *)
(* something to round.                                                     *)
(***************************************************************************)
EXTENDS Integers, Sequences, FiniteSets, TLC

VARIABLES
    categorized_links,  \* the input: a sequence of [protocol, links] items
    max_workers,        \* the executor's thread budget
    idx,                \* position of the for loop over categorized_links
    opc,                \* "loop" | "gather" | "returned"
    tasks,              \* the futures of the group being tested
    all_results,        \* protocol -> list of result dicts
    warnings,           \* protocols logged as having no test function
    submitted,          \* number of probes handed to the executor so far
    finished            \* number of probes that returned their result

vars == <<categorized_links, max_workers, idx, opc, tasks, all_results,
          warnings, submitted, finished>>

None == "None"
NoPing == <<>>

-----------------------------------------------------------------------------
(* Bounds of the model *)

MaxEntries == 2
MaxWorkers == 2

(* Program constants *)

LINK_TEST_TIMEOUT == 8

timeoutTicks == LINK_TEST_TIMEOUT * 2000

\* How long a blocking call that succeeds may take: half a millisecond, or
\* a little more than half of the timeout.  Each is below the timeout.
Durations == {1, timeoutTicks \div 2 + 1001}

-----------------------------------------------------------------------------
(* Candidate strings.  A link is named by its text; Lex gives the parts the
   standard library's urlparse / b64decode / json.loads split it into. *)

Hy == 15 + 1   \* '-' in a UUID string; 0..15 are the hex digits

Rep(d, n) == [i \in 1..n |-> d]

UuidText(d) ==
    Rep(d, 8) \o <<Hy>> \o Rep(d, 4) \o <<Hy>> \o Rep(d, 4) \o <<Hy>>
        \o Rep(d, 4) \o <<Hy>> \o Rep(d, 12)

NoBody == [b64ok |-> FALSE, json |-> "invalid", add |-> None,
           port |-> <<>>, portkind |-> "missing", tls |-> None, sni |-> None,
           server |-> None]

BaseLex == [scheme |-> None, at |-> FALSE, user |-> <<>>, hasuser |-> FALSE,
            host |-> None, port |-> <<>>, security |-> None, sni |-> None,
            body |-> NoBody]

Lex(link) ==
    CASE link = "vless://u1@a.example:443?security=tls" ->
            [BaseLex EXCEPT !.scheme = "vless", !.at = TRUE, !.hasuser = TRUE,
                !.user = UuidText(1), !.host = "a.example",
                !.port = <<4, 4, 3>>, !.security = "tls"]
      [] link = "vless://u2@1.1.1.1:80" ->
            [BaseLex EXCEPT !.scheme = "vless", !.at = TRUE, !.hasuser = TRUE,
                !.user = UuidText(10), !.host = "1.1.1.1", !.port = <<8, 0>>]
      [] link = "vless://short@a.example:443?security=tls&sni=b.example" ->
            [BaseLex EXCEPT !.scheme = "vless", !.at = TRUE, !.hasuser = TRUE,
                !.user = Rep(3, 5), !.host = "a.example",
                !.port = <<4, 4, 3>>, !.security = "tls", !.sni = "b.example"]
      [] link = "vless://u1@a.example" ->
            [BaseLex EXCEPT !.scheme = "vless", !.at = TRUE, !.hasuser = TRUE,
                !.user = UuidText(1), !.host = "a.example"]
      [] link = "vmess://b64({add:a.example,port:443,tls:tls})" ->
            [BaseLex EXCEPT !.scheme = "vmess",
                !.body = [NoBody EXCEPT !.b64ok = TRUE, !.json = "object",
                    !.add = "a.example", !.port = <<4, 4, 3>>,
                    !.portkind = "str", !.tls = "tls"]]
      [] link = "vmess://b64({add:1.1.1.1,port:80})" ->
            [BaseLex EXCEPT !.scheme = "vmess",
                !.body = [NoBody EXCEPT !.b64ok = TRUE, !.json = "object",
                    !.add = "1.1.1.1", !.port = <<8, 0>>,
                    !.portkind = "int"]]
      [] link = "vmess://b64({port:443})" ->
            [BaseLex EXCEPT !.scheme = "vmess",
                !.body = [NoBody EXCEPT !.b64ok = TRUE, !.json = "object",
                    !.port = <<4, 4, 3>>, !.portkind = "int"]]
      [] link = "vmess://b64({add:a.example,port:abc})" ->
            [BaseLex EXCEPT !.scheme = "vmess",
                !.body = [NoBody EXCEPT !.b64ok = TRUE, !.json = "object",
                    !.add = "a.example", !.port = <<97, 98, 99>>,
                    !.portkind = "str"]]
      [] link = "vmess://b64([])" ->
            [BaseLex EXCEPT !.scheme = "vmess",
                !.body = [NoBody EXCEPT !.b64ok = TRUE, !.json = "array"]]
      \* b64decode drops the characters outside its alphabet: b''
      [] link = "vmess://!!!" ->
            [BaseLex EXCEPT !.scheme = "vmess",
                !.body = [NoBody EXCEPT !.b64ok = TRUE]]
      \* one character too many for base64, whatever the padding
      [] link = "vmess://A" ->
            [BaseLex EXCEPT !.scheme = "vmess"]
      [] link = "trojan://pw@a.example:443" ->
            [BaseLex EXCEPT !.scheme = "trojan", !.at = TRUE,
                !.hasuser = TRUE, !.user = <<112, 119>>,
                !.host = "a.example", !.port = <<4, 4, 3>>]
      [] link = "trojan://1.1.1.1:443?sni=b.example" ->
            [BaseLex EXCEPT !.scheme = "trojan", !.host = "1.1.1.1",
                !.port = <<4, 4, 3>>, !.sni = "b.example"]
      [] link = "ss://m:pw@a.example:8388" ->
            [BaseLex EXCEPT !.scheme = "ss", !.at = TRUE, !.hasuser = TRUE,
                !.user = <<109>>, !.host = "a.example",
                !.port = <<8, 3, 8, 8>>]
      [] link = "ss://b64(1.1.1.1:8388)" ->
            [BaseLex EXCEPT !.scheme = "ss",
                !.body = [NoBody EXCEPT !.b64ok = TRUE,
                    !.server = "1.1.1.1", !.port = <<8, 3, 8, 8>>]]
      [] link = "ss://m:pw@a.example:x1" ->
            [BaseLex EXCEPT !.scheme = "ss", !.at = TRUE, !.hasuser = TRUE,
                !.user = <<109>>, !.host = "a.example",
                !.port = <<120, 1>>]
      [] link = "ss://!!!" ->
            [BaseLex EXCEPT !.scheme = "ss",
                !.body = [NoBody EXCEPT !.b64ok = TRUE]]
      [] link = "ss://A" ->
            [BaseLex EXCEPT !.scheme = "ss"]
      [] link = "http://a.example:8080" ->
            [BaseLex EXCEPT !.scheme = "http", !.host = "a.example",
                !.port = <<8, 0, 8, 0>>]

AllLinks ==
    {"vless://u1@a.example:443?security=tls",
     "vless://u2@1.1.1.1:80",
     "vless://short@a.example:443?security=tls&sni=b.example",
     "vmess://b64({add:a.example,port:443,tls:tls})",
     "vmess://b64({add:1.1.1.1,port:80})",
     "vmess://!!!",
     "vmess://A",
     "vmess://b64({port:443})",
     "vmess://b64({add:a.example,port:abc})",
     "vmess://b64([])",
     "vless://u1@a.example",
     "ss://m:pw@a.example:x1",
     "ss://A",
     "trojan://pw@a.example:443",
     "trojan://1.1.1.1:443?sni=b.example",
     "ss://m:pw@a.example:8388",
     "ss://b64(1.1.1.1:8388)",
     "ss://!!!",
     "http://a.example:8080"}

-----------------------------------------------------------------------------
(* Exceptions: the classes the handlers tell apart, and their bases. *)

Bases(exc) ==
    CASE exc = "JSONDecodeError"        -> {"JSONDecodeError", "ValueError", "Exception"}
      [] exc = "binascii.Error"         -> {"binascii.Error", "ValueError", "Exception"}
      [] exc = "ValueError"             -> {"ValueError", "Exception"}
      [] exc = "IndexError"             -> {"IndexError", "Exception"}
      [] exc = "timeout"                -> {"timeout", "OSError", "Exception"}
      [] exc = "ConnectionRefusedError" -> {"ConnectionRefusedError", "OSError", "Exception"}
      [] exc = "SSLError"               -> {"SSLError", "OSError", "Exception"}
      [] exc = "OSError"                -> {"OSError", "Exception"}
      [] OTHER                          -> {exc, "Exception"}

Isa(exc, classes) == Bases(exc) \cap classes # {}

\* An exception none of the probes names in an except clause of its own:
\* what only `except Exception` catches.
UnexpectedFaults == {"TypeError", "AttributeError", "RuntimeError"}

DnsFailed == "DNS resolution failed"
Unexpected == "An unexpected error occurred"

\* The except clauses of each probe, in the order they are written.

\* (mutant) test_vless_link without its last clause, `except Exception`
vless_except_narrow(exc) ==
    IF Isa(exc, {"timeout"}) THEN "Connection or handshake timed out"
    ELSE IF Isa(exc, {"ConnectionRefusedError", "OSError"}) THEN "Connection failed"
    ELSE None

vless_except(exc) ==
    IF Isa(exc, {"timeout"}) THEN "Connection or handshake timed out"
    ELSE IF Isa(exc, {"ConnectionRefusedError", "OSError"}) THEN "Connection failed"
    ELSE IF Isa(exc, {"Exception"}) THEN Unexpected
    ELSE None

vmess_except(exc) ==
    IF Isa(exc, {"JSONDecodeError", "binascii.Error"}) THEN "Invalid Base64 or JSON in link"
    ELSE IF Isa(exc, {"timeout"}) THEN "Connection timed out"
    ELSE IF Isa(exc, {"ConnectionRefusedError", "OSError"}) THEN "Connection failed"
    ELSE IF Isa(exc, {"Exception"}) THEN Unexpected
    ELSE None

\* (mutant) the OSError clause written before the timeout clause
trojan_except_os_first(exc) ==
    IF Isa(exc, {"ConnectionRefusedError", "OSError", "SSLError"}) THEN "Connection or TLS failed"
    ELSE IF Isa(exc, {"timeout"}) THEN "Connection or handshake timed out"
    ELSE IF Isa(exc, {"Exception"}) THEN Unexpected
    ELSE None

trojan_except(exc) ==
    IF Isa(exc, {"timeout"}) THEN "Connection or handshake timed out"
    ELSE IF Isa(exc, {"ConnectionRefusedError", "OSError", "SSLError"}) THEN "Connection or TLS failed"
    ELSE IF Isa(exc, {"Exception"}) THEN Unexpected
    ELSE None

ss_except(exc) ==
    IF Isa(exc, {"ValueError", "IndexError", "binascii.Error"}) THEN "Invalid or unparsable SS link format"
    ELSE IF Isa(exc, {"timeout"}) THEN "Connection timed out"
    ELSE IF Isa(exc, {"ConnectionRefusedError", "OSError"}) THEN "Connection failed"
    ELSE IF Isa(exc, {"Exception"}) THEN Unexpected
    ELSE None

Except(fn, exc) ==
    CASE fn = "test_vless_link"  -> vless_except(exc)
      [] fn = "test_vmess_link"  -> vmess_except(exc)
      [] fn = "test_trojan_link" -> trojan_except(exc)
      [] fn = "test_ss_link"     -> ss_except(exc)

-----------------------------------------------------------------------------
(* Parsing *)

RECURSIVE int(_)
\* int() of a decimal digit string
int(digits) ==
    IF digits = <<>> THEN 0
    ELSE 10 * int(SubSeq(digits, 1, Len(digits) - 1)) + digits[Len(digits)]

isdigit(s) == s # <<>> /\ \A i \in 1..Len(s) : s[i] \in 0..9

NoPort == <<>>

Raise(exc) == [ok |-> FALSE, exc |-> exc, server |-> None, port |-> NoPort,
               is_tls |-> FALSE, sni |-> None]

Endpoint(server, port, is_tls, sni) ==
    [ok |-> TRUE, exc |-> None, server |-> server, port |-> port,
     is_tls |-> is_tls, sni |-> sni]

\* urllib's SplitResult.port: None without a port, ValueError for a port that
\* is not a number of 0..65535
port_raises(x) == x.port # <<>> /\ (~isdigit(x.port) \/ int(x.port) > 65535)

url_port(x) == IF x.port = <<>> THEN NoPort ELSE <<int(x.port)>>

get(value, default) == IF value = None THEN default ELSE value

parse_vless(link) ==
    LET x == Lex(link)
        security == get(x.security, "none")
    IN  IF port_raises(x) THEN Raise("ValueError")
        ELSE Endpoint(x.host, url_port(x), security \in {"tls", "xtls"},
                      get(x.sni, x.host))

parse_vmess(link) ==
    LET c == Lex(link).body
    IN  IF ~c.b64ok THEN Raise("binascii.Error")
        ELSE IF c.json = "invalid" THEN Raise("JSONDecodeError")
        ELSE IF c.json # "object" THEN Raise("AttributeError")
        ELSE IF c.portkind = "null" THEN Raise("TypeError")
        ELSE IF c.portkind = "str" /\ ~isdigit(c.port) THEN Raise("ValueError")
        ELSE Endpoint(c.add,
                      IF c.portkind = "missing" THEN <<0>> ELSE <<int(c.port)>>,
                      c.tls \in {"tls", "xtls"}, get(c.sni, c.add))

\* Trojan always wraps the connection in TLS.
parse_trojan(link) ==
    LET x == Lex(link)
    IN  IF port_raises(x) THEN Raise("ValueError")
        ELSE Endpoint(x.host, url_port(x), TRUE, get(x.sni, x.host))

parse_ss(link) ==
    LET x == Lex(link)
    IN  IF x.at
        THEN IF port_raises(x) THEN Raise("ValueError")
             ELSE Endpoint(x.host, url_port(x), FALSE, None)
        ELSE IF ~x.body.b64ok THEN Raise("binascii.Error")
             ELSE IF x.body.server = None THEN Raise("ValueError")
             ELSE Endpoint(x.body.server, <<int(x.body.port)>>, FALSE, None)

\* The forms test_ss_link runs its parsing code for: `if "@" in link` picks
\* one branch, and neither branch falls back to the other
ss_forms(link) == IF Lex(link).at THEN <<1>> ELSE <<2>>

Parse(fn, link) ==
    CASE fn = "test_vless_link"  -> parse_vless(link)
      [] fn = "test_vmess_link"  -> parse_vmess(link)
      [] fn = "test_trojan_link" -> parse_trojan(link)
      [] fn = "test_ss_link"     -> parse_ss(link)

\* ipaddress.ip_address accepts the host
is_ip_address(domain) == domain \in {"1.1.1.1"}

-----------------------------------------------------------------------------
(* Handshake packets, as sequences of bytes *)

uuid_raises(user) ==
    LET hex == SelectSeq(user, LAMBDA c : c # Hy)
    IN  Len(hex) # 32 \/ \E i \in 1..Len(hex) : hex[i] \notin 0..15

\* uuid.UUID(text).bytes
uuid_bytes(user) ==
    LET hex == SelectSeq(user, LAMBDA c : c # Hy)
    IN  [i \in 1..(Len(hex) \div 2) |-> 16 * hex[2 * i - 1] + hex[2 * i]]

\* struct.pack('>H', n)
pack_H(n) == <<n \div 256, n % 256>>

\* (mutant) the addon length byte left out
vless_packet_no_addon(user) ==
    <<0>> \o uuid_bytes(user) \o <<1>> \o pack_H(80) \o <<1>> \o <<8, 8, 8, 8>>

vless_packet(user) ==
    <<0>> \o uuid_bytes(user) \o <<0>> \o <<1>> \o pack_H(80) \o <<1>>
        \o <<8, 8, 8, 8>>

hexdigit(n) == IF n < 10 THEN 48 + n ELSE 87 + n

\* bytes.hex(), then encode(): two ASCII hex digits per byte
hex(bytes) ==
    [i \in 1..(2 * Len(bytes)) |->
        IF i % 2 = 1 THEN hexdigit(bytes[(i + 1) \div 2] \div 16)
        ELSE hexdigit(bytes[i \div 2] % 16)]

crlf == <<13, 10>>

\* b'v1.v2ray.com'
dest_addr == <<118, 49, 46, 118, 50, 114, 97, 121, 46, 99, 111, 109>>

trojan_packet(password) ==
    hex(password) \o crlf \o <<1>> \o <<3>> \o <<Len(dest_addr)>>
        \o dest_addr \o pack_H(80) \o crlf

-----------------------------------------------------------------------------
(* One probe: the state of a call of a test function *)

\* (mutant) a fifth protocol in the dispatch table
test_function_map_http ==
    [protocol \in {"vless", "vmess", "trojan", "ss", "http"} |->
        CASE protocol = "vless"  -> "test_vless_link"
          [] protocol = "vmess"  -> "test_vmess_link"
          [] protocol = "trojan" -> "test_trojan_link"
          [] protocol = "ss"     -> "test_ss_link"
          [] protocol = "http"   -> "test_vless_link"]

\* Mapping of protocols to their respective test functions
test_function_map ==
    [protocol \in {"vless", "vmess", "trojan", "ss"} |->
        CASE protocol = "vless"  -> "test_vless_link"
          [] protocol = "vmess"  -> "test_vmess_link"
          [] protocol = "trojan" -> "test_trojan_link"
          [] protocol = "ss"     -> "test_ss_link"]

\* result = {"link": link, "status": "dead", "ping_ms": None, "error": None}
NewResult(link) ==
    [link |-> link, status |-> "dead", ping_ms |-> NoPing, error |-> None]

\* A call of fn(link, timeout) waiting in the executor's work queue.  Beside
\* the call's own variables (ep, sock, elapsed, result) a task records what
\* happened on the wire: sockets created, lookups made, the resolver's answer,
\* whether connect and the TLS handshake succeeded, the bytes sent, the
\* number of bytes recv returned, the exception raised and where, and how
\* long the lookup took.
NewTask(fn, link) ==
    [link |-> link, fn |-> fn, pc |-> "queued", ep |-> Raise(None),
     sock |-> "none", socks |-> 0, lookups |-> 0, dns |-> None, lookup |-> 0,
     connected |-> FALSE, tls |-> FALSE, sent |-> <<>>, rcvd |-> <<>>,
     elapsed |-> 0, raised |-> None, at |-> None,
     result |-> NewResult(link)]

\* (mutant) no finally clause
close_never(sock) == sock

\* finally: if sock: sock.close()
close(sock) == IF sock = "open" THEN "closed" ELSE sock

\* round((end_time - start_time) * 1000): ticks to milliseconds, a half
\* rounded to the even neighbour
round_ms(ticks) ==
    LET q == ticks \div 2
    IN  IF ticks % 2 = 0 THEN q
        ELSE IF q % 2 = 0 THEN q ELSE q + 1

\* The probe raised exc: its except clause, its finally, its return.
Fail(t, exc) ==
    [t EXCEPT !.pc = "done", !.sock = close(@), !.elapsed = 0,
              !.raised = exc, !.at = t.pc,
              !.result = [@ EXCEPT !.error = Except(t.fn, exc)]]

\* result["status"] = "alive" with the measured time; finally; return
Alive(t) ==
    [t EXCEPT !.pc = "done", !.sock = close(@),
              !.result = [@ EXCEPT !.status = "alive",
                                   !.ping_ms = <<round_ms(t.elapsed)>>]]

\* start_time is taken, the socket is created and connect() is entered.
Connecting(t) ==
    [t EXCEPT !.pc = "connect", !.sock = "open", !.socks = @ + 1]

\* (mutant) the test `if not ip` left out: the probe goes on to connect
resolve_ignored(t) == Connecting(t)

\* (mutant) the early return without a reason
resolve_failed_silent(t) == [t EXCEPT !.pc = "done", !.sock = close(@)]

\* if not ip: result["error"] = ...; return result
resolve_failed(t) ==
    [t EXCEPT !.pc = "done", !.sock = close(@),
              !.result = [@ EXCEPT !.error = DnsFailed]]

\* (mutant) no probe wraps its connection
wraps_tls_never(fn, is_tls) == FALSE

\* (mutant) every probe wraps its connection
wraps_tls_always(fn, is_tls) == TRUE

\* Whether the probe wraps the connection in TLS
wraps_tls(fn, is_tls) ==
    CASE fn = "test_trojan_link" -> TRUE
      [] fn = "test_ss_link"     -> FALSE
      [] OTHER                   -> is_tls

\* (mutant) every probe sends a handshake
sends_handshake_all(fn) == TRUE

\* Whether the probe sends a handshake and reads a reply on the transport
sends_handshake(fn) == fn \in {"test_vless_link", "test_trojan_link"}

handshake_packet(t) ==
    IF t.fn = "test_vless_link" THEN vless_packet(Lex(t.link).user)
    ELSE trojan_packet(Lex(t.link).user)

\* The transport is up (connected, and wrapped if asked for).
Established(t) ==
    LET x == Lex(t.link)
    IN  IF ~sends_handshake(t.fn) THEN Alive(t)
        ELSE IF t.fn = "test_vless_link" /\ ~x.hasuser THEN Fail(t, "TypeError")
        ELSE IF t.fn = "test_vless_link" /\ uuid_raises(x.user) THEN Fail(t, "ValueError")
        ELSE IF t.fn = "test_trojan_link" /\ ~x.hasuser THEN Fail(t, "AttributeError")
        ELSE [t EXCEPT !.pc = "send"]

\* (mutant) a parser that keeps a count between calls and adds it to the
\* port it derives
Begin_stateful(t) ==
    LET ep0 == Parse(t.fn, t.link)
        ep == IF ep0.ok /\ ep0.port # NoPort
              THEN [ep0 EXCEPT !.port = <<@[1] + finished>>]
              ELSE ep0
        t1 == [t EXCEPT !.ep = ep]
    IN  IF ~ep.ok THEN Fail(t, ep.exc)
        ELSE IF ep.server = None THEN Fail(t1, "TypeError")
        ELSE IF is_ip_address(ep.server) THEN Connecting(t1)
        ELSE [t1 EXCEPT !.pc = "resolve", !.lookups = @ + 1]

\* The worker thread calls fn(link, timeout): parsing, up to the first
\* blocking call.
Begin(t) ==
    LET ep == Parse(t.fn, t.link)
        t1 == [t EXCEPT !.ep = ep]
    IN  IF ~ep.ok THEN Fail(t, ep.exc)
        ELSE IF ep.server = None THEN Fail(t1, "TypeError")
        ELSE IF is_ip_address(ep.server) THEN Connecting(t1)
        ELSE [t1 EXCEPT !.pc = "resolve", !.lookups = @ + 1]

\* What the environment may answer to each blocking call
Fault == "RuntimeError"

ResolveOutcomes == {"ok", "gaierror", Fault}

ConnectOutcomes(t) ==
    IF t.ep.port = NoPort
    THEN IF t.fn = "test_trojan_link" THEN {"ConnectionRefusedError", "OSError"}
         ELSE {"TypeError"}
    ELSE {"ok", "ConnectionRefusedError", "timeout", "OSError", Fault}

TlsOutcomes == {"ok", "SSLError", "timeout", "OSError", Fault}

SendOutcomes == {"ok", "timeout", "OSError", Fault}

RecvOutcomes == {"byte", "eof", "timeout", "OSError", Fault}

\* How long the call took, where that matters: when it succeeded
Took(outcome) == IF outcome \in {"ok", "byte", "eof"} THEN Durations ELSE {0}

\* socket.gethostbyname takes no timeout: the resolver's own retries decide
\* how long it lasts.  A lookup that fails may have taken longer than the
\* probe's timeout.
LookupTook(outcome) ==
    IF outcome = "gaierror" THEN {1, timeoutTicks + 1} ELSE {1}

AfterResolve(t, outcome, d) ==
    LET t1 == [t EXCEPT !.dns = outcome, !.lookup = d]
    IN  IF outcome = "ok" THEN Connecting(t1)
        ELSE IF outcome = "gaierror" THEN resolve_failed(t1)
        ELSE Fail(t1, outcome)

AfterConnect(t, outcome, d) ==
    IF outcome # "ok" THEN Fail(t, outcome)
    ELSE LET t1 == [t EXCEPT !.elapsed = @ + d, !.connected = TRUE]
         IN  IF wraps_tls(t.fn, t.ep.is_tls) THEN [t1 EXCEPT !.pc = "tls"]
             ELSE Established(t1)

AfterTls(t, outcome, d) ==
    IF outcome # "ok" THEN Fail(t, outcome)
    ELSE Established([t EXCEPT !.elapsed = @ + d, !.tls = TRUE])

AfterSend(t, outcome, d) ==
    IF outcome # "ok" THEN Fail(t, outcome)
    ELSE [t EXCEPT !.elapsed = @ + d, !.sent = handshake_packet(t),
                   !.pc = "recv"]

\* sock.recv(1) returns one byte, or b'' when the peer has closed.
AfterRecv(t, outcome, d) ==
    IF outcome \notin {"byte", "eof"} THEN Fail(t, outcome)
    ELSE Alive([t EXCEPT !.elapsed = @ + d,
                         !.rcvd = IF outcome = "byte" THEN <<1>> ELSE <<0>>])

-----------------------------------------------------------------------------
(* The executor *)

InFlight(ts) == {i \in DOMAIN ts : ts[i].pc \notin {"queued", "done"}}

\* (mutant) a thread for every call, whatever the budget
thread_always(ts, workers) == TRUE

\* ThreadPoolExecutor(max_workers): a queued call starts when a thread is free
thread_free(ts, workers) == Cardinality(InFlight(ts)) < workers

Step(i, t) ==
    /\ tasks' = [tasks EXCEPT ![i] = t]
    /\ finished' = IF t.pc = "done" THEN finished + 1 ELSE finished
    /\ UNCHANGED <<categorized_links, max_workers, idx, opc, all_results,
                   warnings, submitted>>

Start(i) ==
    /\ opc = "gather"
    /\ i \in DOMAIN tasks
    /\ tasks[i].pc = "queued"
    /\ \A j \in 1..(i - 1) : tasks[j].pc # "queued"
    /\ thread_free(tasks, max_workers)
    /\ Step(i, Begin(tasks[i]))

ResolveDone(i) ==
    /\ i \in DOMAIN tasks
    /\ tasks[i].pc = "resolve"
    /\ \E outcome \in ResolveOutcomes : \E d \in LookupTook(outcome) :
            Step(i, AfterResolve(tasks[i], outcome, d))

ConnectDone(i) ==
    /\ i \in DOMAIN tasks
    /\ tasks[i].pc = "connect"
    /\ \E outcome \in ConnectOutcomes(tasks[i]) : \E d \in Took(outcome) :
            Step(i, AfterConnect(tasks[i], outcome, d))

TlsDone(i) ==
    /\ i \in DOMAIN tasks
    /\ tasks[i].pc = "tls"
    /\ \E outcome \in TlsOutcomes : \E d \in Took(outcome) :
            Step(i, AfterTls(tasks[i], outcome, d))

SendDone(i) ==
    /\ i \in DOMAIN tasks
    /\ tasks[i].pc = "send"
    /\ \E outcome \in SendOutcomes : \E d \in Took(outcome) :
            Step(i, AfterSend(tasks[i], outcome, d))

RecvDone(i) ==
    /\ i \in DOMAIN tasks
    /\ tasks[i].pc = "recv"
    /\ \E outcome \in RecvOutcomes : \E d \in Took(outcome) :
            Step(i, AfterRecv(tasks[i], outcome, d))

-----------------------------------------------------------------------------
(* The orchestrator, test_links_ping *)

InLoop == opc = "loop" /\ idx <= Len(categorized_links)

\* if not links: continue
SkipEmpty ==
    /\ InLoop
    /\ categorized_links[idx].links = <<>>
    /\ idx' = idx + 1
    /\ UNCHANGED <<categorized_links, max_workers, opc, tasks, all_results,
                   warnings, submitted, finished>>

\* if not test_function: logger.warning(...); continue
SkipUnsupported ==
    /\ InLoop
    /\ categorized_links[idx].links # <<>>
    /\ categorized_links[idx].protocol \notin DOMAIN test_function_map
    /\ warnings' = Append(warnings, categorized_links[idx].protocol)
    /\ idx' = idx + 1
    /\ UNCHANGED <<categorized_links, max_workers, opc, tasks, all_results,
                   submitted, finished>>

RECURSIVE every_group(_)
every_group(m) ==
    IF m = <<>> THEN <<>>
    ELSE (IF Head(m).protocol \in DOMAIN test_function_map
          THEN [i \in DOMAIN Head(m).links |->
                   NewTask(test_function_map[Head(m).protocol], Head(m).links[i])]
          ELSE <<>>) \o every_group(Tail(m))

\* (mutant) the calls of every group handed to the executor at once
run_in_executor_all(fn, links) == every_group(categorized_links)

\* tasks = [loop.run_in_executor(executor, test_function, link, timeout) ...]
run_in_executor(fn, links) == [i \in DOMAIN links |-> NewTask(fn, links[i])]

Submit ==
    /\ InLoop
    /\ categorized_links[idx].links # <<>>
    /\ categorized_links[idx].protocol \in DOMAIN test_function_map
    /\ tasks' = run_in_executor(test_function_map[categorized_links[idx].protocol],
                                categorized_links[idx].links)
    /\ submitted' = submitted + Len(categorized_links[idx].links)
    /\ opc' = "gather"
    /\ UNCHANGED <<categorized_links, max_workers, idx, all_results, warnings,
                   finished>>

\* (mutant) waiting for the first future only
any_done(ts) == \E i \in DOMAIN ts : ts[i].pc = "done"

\* (mutant) no waiting at all
all_done_nowait(ts) == TRUE

\* await asyncio.gather(*tasks) is over once every future has its result
all_done(ts) == \A i \in DOMAIN ts : ts[i].pc = "done"

\* (mutant) every slot filled with the first future's result
gather_first(ts) == [i \in DOMAIN ts |-> ts[1].result]

\* (mutant) the results in the opposite order
gather_reversed(ts) == [i \in DOMAIN ts |-> ts[Len(ts) + 1 - i].result]

\* the list asyncio.gather returns: the futures' results, in the tasks' order
gather(ts) == [i \in DOMAIN ts |-> ts[i].result]

\* all_results[protocol] = link_results
store(results, protocol, link_results) ==
    [p \in DOMAIN results \cup {protocol} |->
        IF p = protocol THEN link_results ELSE results[p]]

Gather ==
    /\ opc = "gather"
    /\ all_done(tasks)
    /\ all_results' = store(all_results, categorized_links[idx].protocol,
                            gather(tasks))
    /\ tasks' = <<>>
    /\ idx' = idx + 1
    /\ opc' = "loop"
    /\ UNCHANGED <<categorized_links, max_workers, warnings, submitted,
                   finished>>

\* the loop is over: the executor shuts down, return all_results
Return ==
    /\ opc = "loop"
    /\ idx > Len(categorized_links)
    /\ opc' = "returned"
    /\ UNCHANGED <<categorized_links, max_workers, idx, tasks, all_results,
                   warnings, submitted, finished>>

Next ==
    \/ SkipEmpty
    \/ SkipUnsupported
    \/ Submit
    \/ Gather
    \/ Return
    \/ \E i \in 1..Len(tasks) : Start(i)
    \/ \E i \in 1..Len(tasks) : ResolveDone(i)
    \/ \E i \in 1..Len(tasks) : ConnectDone(i)
    \/ \E i \in 1..Len(tasks) : TlsDone(i)
    \/ \E i \in 1..Len(tasks) : SendDone(i)
    \/ \E i \in 1..Len(tasks) : RecvDone(i)

-----------------------------------------------------------------------------
(* Inputs *)

SeqsUpTo(S, n) == UNION {[1..k -> S] : k \in 0..n}

\* The keys a mapping of these links may have: categorize_links files a
\* link under its scheme; a key may also come with an empty list
Groups(links, n) ==
    UNION {{[protocol |-> p, links |-> ls] :
                ls \in SeqsUpTo({l \in links : Lex(l).scheme = p}, n)} :
           p \in {Lex(l).scheme : l \in links}}

RECURSIVE Entries(_)
\* The size of a mapping: its candidates, a key with an empty list counting
\* for one
Entries(m) ==
    IF m = <<>> THEN 0
    ELSE (IF Head(m).links = <<>> THEN 1 ELSE Len(Head(m).links))
            + Entries(Tail(m))

\* The mappings of size n at most.  A dict has each key once.
Mappings(links, n) ==
    {m \in SeqsUpTo(Groups(links, n), n) :
        /\ \A i, j \in DOMAIN m : i # j => m[i].protocol # m[j].protocol
        /\ Entries(m) <= n}

Start0 ==
    /\ idx = 1
    /\ opc = "loop"
    /\ tasks = <<>>
    /\ all_results = <<>>
    /\ warnings = <<>>
    /\ submitted = 0
    /\ finished = 0

\* Batches: a few candidates of each protocol, several groups and threads
BatchLinks ==
    {"vless://u2@1.1.1.1:80",
     "vmess://b64({add:1.1.1.1,port:80})",
     "trojan://1.1.1.1:443?sni=b.example",
     "ss://m:pw@a.example:8388",
     "ss://!!!",
     "http://a.example:8080"}

BatchInit ==
    /\ categorized_links \in Mappings(BatchLinks, MaxEntries)
    /\ max_workers \in 1..MaxWorkers
    /\ Start0

\* One probe: every candidate of the catalogue, alone in its batch
ProbeInit ==
    /\ categorized_links \in Mappings(AllLinks, 1)
    /\ max_workers = 1
    /\ Start0

Init == BatchInit \/ ProbeInit

Spec == Init /\ [][Next]_vars

\* Batches for the question of termination, on one thread or on the whole
\* budget: between them the candidates go through every blocking call
\* (lookup, connect, TLS handshake, send, recv); one is unsupported
FairLinks ==
    {"vless://u2@1.1.1.1:80",
     "vmess://b64({add:a.example,port:443,tls:tls})",
     "http://a.example:8080"}

FairInit ==
    /\ categorized_links \in Mappings(FairLinks, MaxEntries)
    /\ max_workers \in {1, MaxWorkers}
    /\ Start0

\* The threads and the event loop keep running, and every blocking call
\* returns or times out.
FairSpec == FairInit /\ [][Next]_vars /\ WF_vars(Next)

-----------------------------------------------------------------------------
(* Properties *)

Supported == DOMAIN test_function_map

Done(i) == tasks[i].pc = "done"

Occurrences(seq, x) == Cardinality({i \in DOMAIN seq : seq[i] = x})

ResultLinks(results) == [i \in DOMAIN results |-> results[i].link]

\* The groups of the input that are tested: a supported protocol, a list
\* that is not empty
Tested == {g \in DOMAIN categorized_links :
            /\ categorized_links[g].protocol \in Supported
            /\ categorized_links[g].links # <<>>}

RECURSIVE TestedCandidates(_)
TestedCandidates(m) ==
    IF m = <<>> THEN 0
    ELSE (IF Head(m).protocol \in Supported THEN Len(Head(m).links) ELSE 0)
            + TestedCandidates(Tail(m))

\* C1: once test_links_ping has returned, every candidate listed under a
\* supported protocol has as many results with its link in that protocol's
\* list as it has occurrences in the input: none dropped, none twice.
C1_ExactlyOneResult ==
    opc = "returned" =>
        \A g \in Tested :
            LET grp == categorized_links[g]
            IN  /\ grp.protocol \in DOMAIN all_results
                /\ \A l \in AllLinks :
                       Occurrences(ResultLinks(all_results[grp.protocol]), l)
                           = Occurrences(grp.links, l)

C1_Witness ==
    /\ opc = "returned"
    /\ \E p \in DOMAIN all_results :
           /\ Len(all_results[p]) = 2
           /\ all_results[p][1].link # all_results[p][2].link
           /\ all_results[p][1].status = "alive"
           /\ all_results[p][2].status = "dead"

OpenSockets == {i \in DOMAIN tasks : tasks[i].sock = "open"}

\* C2: at every moment of a batch the number of open probe sockets is at
\* most max_workers, however many candidates wait.
C2_BudgetRespected == Cardinality(OpenSockets) <= max_workers

C2_Witness ==
    /\ Cardinality(OpenSockets) = max_workers
    /\ \E i \in DOMAIN tasks : tasks[i].pc = "queued"

CrashReported ==
    \E p \in DOMAIN all_results :
        \E i \in DOMAIN all_results[p] : all_results[p][i].error = Unexpected

C3_State ==
    /\ \A i \in DOMAIN tasks :
           tasks[i].raised \in UnexpectedFaults =>
               /\ Done(i)
               /\ tasks[i].result.status = "dead"
               /\ tasks[i].result.ping_ms = NoPing
               /\ tasks[i].result.error = Unexpected
    /\ (opc = "returned" /\ CrashReported) =>
           \A g \in Tested :
               LET grp == categorized_links[g]
               IN  /\ grp.protocol \in DOMAIN all_results
                   /\ Len(all_results[grp.protocol]) = Len(grp.links)
                   /\ \A i \in DOMAIN grp.links :
                          all_results[grp.protocol][i].status \in {"alive", "dead"}

C3_Step ==
    \A i \in DOMAIN tasks :
        (/\ tasks[i].raised = None
         /\ i \in DOMAIN tasks'
         /\ tasks'[i].raised \in UnexpectedFaults) =>
            /\ opc' = opc
            /\ all_results' = all_results
            /\ DOMAIN tasks' = DOMAIN tasks
            /\ \A j \in DOMAIN tasks : j # i => tasks'[j] = tasks[j]

\* C3: a probe that hits an unexpected fault, at whatever step, ends 'dead'
\* with the unexpected-error reason; the step in which it does so changes no
\* other probe and not the orchestrator; and the batch still returns a
\* result for every candidate of every tested group.
C3_CrashIsolated == []C3_State /\ [][C3_Step]_vars

C3_Witness ==
    /\ opc = "returned"
    /\ \E p \in DOMAIN all_results :
           /\ Len(all_results[p]) = 2
           /\ all_results[p][1].error = Unexpected
           /\ all_results[p][2].status = "alive"

\* C4: probes A (vless) and C (trojan) report 'alive' only when recv returned
\* a byte; when recv returns nothing (the peer closed) the result is 'dead'
\* with a reason.
C4_AliveNeedsByte ==
    \A i \in DOMAIN tasks :
        (Done(i) /\ sends_handshake(tasks[i].fn)) =>
            /\ tasks[i].result.status = "alive" => tasks[i].rcvd = <<1>>
            /\ tasks[i].rcvd = <<0>> =>
                   /\ tasks[i].result.status = "dead"
                   /\ tasks[i].result.error # None

\* C5: the ping_ms of an 'alive' result is a natural number of at most
\* timeout * 1000.
C5_PingWithinTimeout ==
    \A i \in DOMAIN tasks :
        (Done(i) /\ tasks[i].result.status = "alive") =>
            /\ Len(tasks[i].result.ping_ms) = 1
            /\ tasks[i].result.ping_ms[1] \in Nat
            /\ tasks[i].result.ping_ms[1] <= LINK_TEST_TIMEOUT * 1000

\* C6: a probe whose host did not resolve has returned 'dead', and has
\* created no socket and attempted no connect.
C6_NoConnectAfterDnsFailure ==
    \A i \in DOMAIN tasks :
        tasks[i].dns \notin {None, "ok"} =>
            /\ Done(i)
            /\ tasks[i].result.status = "dead"
            /\ tasks[i].sock = "none"
            /\ tasks[i].socks = 0
            /\ ~tasks[i].connected

C6_Witness ==
    \E i \in DOMAIN tasks :
        /\ tasks[i].dns = "gaierror"
        /\ tasks[i].lookups = 1
        /\ Done(i)
        /\ tasks[i].result.error = DnsFailed

\* C7: the trojan probe sends its handshake only on a connection whose TLS
\* handshake is complete, and a probe whose TLS handshake did not complete
\* ends 'dead'.
C7_TlsBeforeHandshake ==
    \A i \in DOMAIN tasks :
        tasks[i].fn = "test_trojan_link" =>
            /\ (tasks[i].pc \in {"send", "recv"} \/ tasks[i].sent # <<>>)
                   => tasks[i].tls
            /\ (Done(i) /\ ~tasks[i].tls) => tasks[i].result.status = "dead"

C7_Witness ==
    \E i \in DOMAIN tasks :
        /\ tasks[i].fn = "test_trojan_link"
        /\ Done(i)
        /\ tasks[i].connected
        /\ tasks[i].at = "tls"
        /\ tasks[i].raised = "SSLError"
        /\ tasks[i].result.status = "dead"

\* C8: the ss probe is 'alive' exactly when its connect succeeded; it never
\* wraps the connection in TLS, and sends and reads nothing on it.
C8_ConnectOnly ==
    \A i \in DOMAIN tasks :
        tasks[i].fn = "test_ss_link" =>
            /\ ~tasks[i].tls
            /\ tasks[i].sent = <<>>
            /\ tasks[i].rcvd = <<>>
            /\ tasks[i].pc \notin {"tls", "send", "recv"}
            /\ Done(i) => (tasks[i].result.status = "alive" <=> tasks[i].connected)

C8_Witness ==
    \E i \in DOMAIN tasks :
        /\ tasks[i].fn = "test_ss_link"
        /\ Done(i)
        /\ tasks[i].connected
        /\ tasks[i].sock = "closed"
        /\ tasks[i].result.status = "alive"

\* C9: the handshake the vless probe sends is 26 bytes long, whatever the
\* candidate's host, port and parameters.
C9_PacketLength ==
    \A i \in DOMAIN tasks :
        tasks[i].fn = "test_vless_link" =>
            /\ tasks[i].pc = "send" => Len(handshake_packet(tasks[i])) = 26
            /\ tasks[i].sent # <<>> => Len(tasks[i].sent) = 26

C9_Witness ==
    \E i \in DOMAIN tasks :
        /\ tasks[i].fn = "test_vless_link"
        /\ tasks[i].ep.is_tls
        /\ tasks[i].ep.server = "a.example"
        /\ Len(tasks[i].sent) = 26

\* C10: test_links_ping returns in the end, and when it has returned every
\* probe it submitted has returned its result: all the candidates of the
\* tested groups.
C10_ReturnsAfterAll ==
    /\ <>(opc = "returned")
    /\ [](opc = "returned" =>
            /\ finished = submitted
            /\ submitted = TestedCandidates(categorized_links)
            /\ tasks = <<>>)

C10_Witness ==
    /\ opc = "returned"
    /\ finished = 2
    /\ \E p \in DOMAIN all_results :
           /\ Len(all_results[p]) = 2
           /\ all_results[p][1].error = Unexpected
           /\ all_results[p][2].error = "Connection or handshake timed out"

FourTags == {"vless", "vmess", "trojan", "ss"}

C11_State ==
    /\ \A p \in DOMAIN all_results : p \in FourTags
    /\ tasks # <<>> =>
           /\ idx \in DOMAIN categorized_links
           /\ categorized_links[idx].protocol \in FourTags
           /\ \A i \in DOMAIN tasks :
                  tasks[i].fn = test_function_map[categorized_links[idx].protocol]
    /\ \A i \in DOMAIN warnings : warnings[i] \notin FourTags

C11_Step ==
    (/\ idx \in DOMAIN categorized_links
     /\ categorized_links[idx].protocol \notin FourTags) =>
        /\ tasks = <<>> /\ tasks' = <<>>
        /\ all_results' = all_results
        /\ submitted' = submitted
        /\ finished' = finished
        /\ opc' = "loop"
        /\ idx' = idx + 1

WellFormed(r) ==
    /\ r.status \in {"alive", "dead"}
    /\ r.ping_ms # NoPing <=> r.status = "alive"
    /\ r.error # None <=> r.status = "dead"

\* C12: every result a probe returns has status 'alive' or 'dead', a ping_ms
\* exactly when it is 'alive' and an error exactly when it is 'dead'.
C12_ResultShape ==
    /\ \A i \in DOMAIN tasks : Done(i) => WellFormed(tasks[i].result)
    /\ \A p \in DOMAIN all_results :
           \A i \in DOMAIN all_results[p] : WellFormed(all_results[p][i])

C12_Witness ==
    \E p \in DOMAIN all_results :
        /\ Len(all_results[p]) = 2
        /\ all_results[p][1].error = DnsFailed
        /\ all_results[p][1].ping_ms = NoPing
        /\ all_results[p][2].status = "alive"
        /\ all_results[p][2].error = None

\* C13: the mapping test_links_ping returns has the supported keys of its
\* input, a key with an empty list included, and no key the input lacks.
C13_SameTags ==
    opc = "returned" =>
        /\ \A g \in DOMAIN categorized_links :
               categorized_links[g].protocol \in FourTags =>
                   categorized_links[g].protocol \in DOMAIN all_results
        /\ \A p \in DOMAIN all_results :
               \E g \in DOMAIN categorized_links :
                   categorized_links[g].protocol = p

\* A candidate from which no endpoint can be derived: undecodable base64 or
\* JSON, JSON that is not an object, a missing or non-numeric port, a
\* missing host, an invalid UUID.
Malformed(fn, link) ==
    LET x == Lex(link)
        c == x.body
        authority == x.host = None \/ x.port = <<>> \/ ~isdigit(x.port)
    IN  CASE fn = "test_vless_link" ->
                authority \/ ~x.hasuser \/ uuid_raises(x.user)
          [] fn = "test_vmess_link" ->
                \/ ~c.b64ok
                \/ c.json # "object"
                \/ c.add = None
                \/ c.portkind \in {"missing", "null"}
                \/ ~isdigit(c.port)
          [] fn = "test_trojan_link" -> authority
          [] fn = "test_ss_link" ->
                IF x.at THEN authority ELSE ~c.b64ok \/ c.server = None

MalformedReasons ==
    {"Invalid Base64 or JSON in link", "Invalid or unparsable SS link format"}

\* C14: a probe of a candidate from which no endpoint can be derived ends
\* 'dead' with the malformed-candidate reason of its protocol, not with the
\* unexpected-error reason and not with a connect-failure reason.
C14_MalformedReason ==
    \A i \in DOMAIN tasks :
        (Done(i) /\ Malformed(tasks[i].fn, tasks[i].link)) =>
            /\ tasks[i].result.status = "dead"
            /\ tasks[i].result.error \in MalformedReasons

Started(i) == tasks[i].pc # "queued"

Vmess(i) == tasks[i].fn = "test_vmess_link"

C15_State ==
    \A i \in DOMAIN tasks :
        (Vmess(i) /\ Started(i)) =>
            LET ep == parse_vmess(tasks[i].link)
            IN  /\ ep.ok => tasks[i].ep = ep
                /\ ~ep.ok => tasks[i].raised = ep.exc /\ tasks[i].at = "queued"
                /\ \A j \in DOMAIN tasks :
                       (Vmess(j) /\ Started(j) /\ tasks[j].link = tasks[i].link)
                           => tasks[j].ep = tasks[i].ep

C15_Step ==
    \A i \in DOMAIN tasks :
        (Vmess(i) /\ ~Started(i) /\ i \in DOMAIN tasks' /\ tasks'[i].pc # "queued")
            => /\ UNCHANGED <<categorized_links, max_workers, idx, opc,
                               all_results, warnings, submitted>>
               /\ tasks'[i].link = tasks[i].link
               /\ DOMAIN tasks' = DOMAIN tasks
               /\ \A j \in DOMAIN tasks : j # i => tasks'[j] = tasks[j]

C16_ParseBeforeNetwork ==
    \A i \in DOMAIN tasks :
        Malformed(tasks[i].fn, tasks[i].link) =>
            /\ tasks[i].lookups = 0
            /\ tasks[i].socks = 0
            /\ ~tasks[i].connected

Running(i) == tasks[i].pc \notin {"queued", "done"}

\* A probe of one group is in flight while a probe of another group has no
\* terminal result yet
Interleaved ==
    \E i, j \in DOMAIN tasks :
        /\ tasks[i].fn # tasks[j].fn
        /\ Running(i)
        /\ ~Done(j)

\* C17 (as claimed): a batch with two or more non-empty supported groups,
\* and threads for two probes, comes to a state in which a probe of one
\* group is in flight while a probe of another group has not reached its
\* terminal result.
C17_GroupsInterleave ==
    (Cardinality(Tested) >= 2 /\ max_workers >= 2) => <>Interleaved

\* C17 (amended): the groups are tested one after the other.  All the
\* probes in existence belong to the group the loop is at; while one of
\* them has no terminal result, every tested group before it has its full
\* list stored and every probe of those groups has returned, and no group
\* after it has been submitted.
C17_OneGroupAtATime ==
    /\ ~Interleaved
    /\ tasks # <<>> =>
           /\ opc = "gather"
           /\ idx \in Tested
           /\ Len(tasks) = Len(categorized_links[idx].links)
           /\ \A i \in DOMAIN tasks :
                  /\ tasks[i].fn = test_function_map[categorized_links[idx].protocol]
                  /\ tasks[i].link = categorized_links[idx].links[i]
    /\ submitted = TestedCandidates(SubSeq(categorized_links, 1,
                        IF opc = "gather" THEN idx ELSE idx - 1))
    /\ finished = submitted - Cardinality({i \in DOMAIN tasks : ~Done(i)})
    /\ \A g \in Tested :
           LET grp == categorized_links[g]
           IN  IF g < idx
               THEN /\ grp.protocol \in DOMAIN all_results
                    /\ Len(all_results[grp.protocol]) = Len(grp.links)
               ELSE grp.protocol \notin DOMAIN all_results

C17_Witness ==
    /\ Cardinality(Tested) = 2
    /\ max_workers >= 2
    /\ DOMAIN all_results # {}
    /\ \E i \in DOMAIN tasks : Running(i)

C18_State ==
    \A p \in DOMAIN all_results :
        \E g \in DOMAIN categorized_links :
            LET grp == categorized_links[g]
            IN  /\ grp.protocol = p
                /\ g < idx
                /\ Len(all_results[p]) = Len(grp.links)
                /\ \A i \in DOMAIN grp.links :
                       /\ all_results[p][i].link = grp.links[i]
                       /\ \/ all_results[p][i].status = "alive"
                          \/ all_results[p][i].error # None

C18_Step ==
    all_results' # all_results =>
        /\ tasks # <<>>
        /\ \A i \in DOMAIN tasks : Done(i)
        /\ all_results' = store(all_results, categorized_links[idx].protocol,
                                [i \in DOMAIN tasks |-> tasks[i].result])

\* C18: all_results changes only by storing, for the group the loop is at,
\* the results of all its probes once each of them has returned; a list in
\* all_results is as long as its group's candidate list and each of its
\* results is terminal.
C18_NoPartialList == []C18_State /\ [][C18_Step]_vars

C18_Witness ==
    /\ Len(tasks) = 2
    /\ Done(1)
    /\ Running(2)
    /\ categorized_links[idx].protocol \notin DOMAIN all_results

\* The first field of a trojan handshake: the bytes before the first CRLF
FirstField(packet) ==
    LET ends == {k \in 1..(Len(packet) - 1) :
                    packet[k] = crlf[1] /\ packet[k + 1] = crlf[2]}
        k == CHOOSE e \in ends : \A f \in ends : e <= f
    IN  SubSeq(packet, 1, k - 1)

HexChars == {hexdigit(n) : n \in 0..15}

\* C19: the handshake the trojan probe sends starts with 56 hex characters,
\* the hex form of a fixed-length hash, whatever the password's length.
C19_HashLength ==
    \A i \in DOMAIN tasks :
        (tasks[i].fn = "test_trojan_link" /\ tasks[i].sent # <<>>) =>
            LET field == FirstField(tasks[i].sent)
            IN  /\ Len(field) = 56
                /\ \A k \in DOMAIN field : field[k] \in HexChars

\* C20: the ss probe tries form 1 and, when form 1 gives no host and port,
\* form 2; it declares a candidate malformed only after it has tried both,
\* form 1 first.
C20_BothFormsInOrder ==
    \A i \in DOMAIN tasks :
        (tasks[i].fn = "test_ss_link" /\ Done(i)) =>
            LET forms == ss_forms(tasks[i].link)
                tried == {forms[k] : k \in DOMAIN forms}
            IN  /\ tasks[i].result.error = "Invalid or unparsable SS link format"
                       => 2 \in tried
                /\ (1 \in tried /\ ~parse_ss(tasks[i].link).ok) => 2 \in tried
                /\ tried = {1, 2} => forms = <<1, 2>>

\* What a probe reports when connect itself fails: refused, or unreachable
ConnectFailureReasons(fn) ==
    {Except(fn, "ConnectionRefusedError"), Except(fn, "OSError")}

\* C21: in the vless, vmess and trojan probes a TLS handshake that fails
\* after connect succeeded is reported with a reason other than the one
\* reported for a failed connect.
C21_TlsReasonDistinct ==
    \A i \in DOMAIN tasks :
        (/\ Done(i)
         /\ tasks[i].fn \in {"test_vless_link", "test_vmess_link", "test_trojan_link"}
         /\ tasks[i].connected
         /\ tasks[i].at = "tls"
         /\ tasks[i].raised = "SSLError") =>
            tasks[i].result.error \notin ConnectFailureReasons(tasks[i].fn)

\* C22: no blocking call of a probe (lookup, connect, TLS handshake, send,
\* read) lasts longer than the timeout.
C22_StagesBounded ==
    /\ \A d \in Durations : d <= timeoutTicks
    /\ \A i \in DOMAIN tasks :
           /\ tasks[i].lookup <= timeoutTicks
           /\ tasks[i].elapsed <= 4 * timeoutTicks

TimedOutReasons == {"Connection or handshake timed out", "Connection timed out"}

C23_State ==
    \A i \in DOMAIN tasks :
        tasks[i].raised = "timeout" =>
            /\ Done(i)
            /\ tasks[i].at \in {"connect", "tls", "send", "recv"}
            /\ tasks[i].result.status = "dead"
            /\ tasks[i].result.ping_ms = NoPing
            /\ tasks[i].result.error \in TimedOutReasons

C23_Step ==
    \A i \in DOMAIN tasks :
        (/\ tasks[i].raised = None
         /\ i \in DOMAIN tasks'
         /\ tasks'[i].raised = "timeout") =>
            /\ DOMAIN tasks' = DOMAIN tasks
            /\ \A j \in DOMAIN tasks : j # i => tasks'[j] = tasks[j]
            /\ UNCHANGED <<opc, idx, all_results, submitted>>

\* C23: a probe whose connect, TLS handshake, send or read runs into the
\* timeout ends 'dead' with a timed-out reason, and the step in which it
\* does so leaves every other probe, in flight or not, as it was.
C23_TimeoutLocal == []C23_State /\ [][C23_Step]_vars

C23_Witness ==
    /\ Len(tasks) = 2
    /\ tasks[1].raised = "timeout"
    /\ tasks[1].at = "recv"
    /\ tasks[1].result.error = "Connection or handshake timed out"
    /\ Running(2)
    /\ tasks[2].connected

\* C24: resolve_domain hands a numeric address back without a lookup; for
\* any other host it makes one lookup, and whatever goes wrong (host not
\* found, a resolver error, a host value that is missing or invalid) the
\* probe gets the resolution-failed outcome, not an exception.
C24_ResolveCollapses ==
    \A i \in DOMAIN tasks :
        (Started(i) /\ tasks[i].ep.ok) =>
            /\ tasks[i].lookups <= 1
            /\ (tasks[i].ep.server # None /\ is_ip_address(tasks[i].ep.server))
                   => (tasks[i].lookups = 0 /\ tasks[i].dns = None)
            /\ (Done(i) /\ (tasks[i].ep.server = None
                              \/ tasks[i].dns \notin {None, "ok"}))
                   => (tasks[i].result.error = DnsFailed /\ tasks[i].raised = None)

TlsClass == {"tls", "xtls"}

\* C25: the vmess probe does a TLS handshake exactly when the envelope's
\* tls value is a TLS-class one; it is 'alive' exactly when connect, and
\* that handshake where there is one, succeeded; and it neither sends nor
\* reads a byte.
C25_TransportOnly ==
    \A i \in DOMAIN tasks :
        (Vmess(i) /\ Started(i) /\ tasks[i].ep.ok) =>
            LET flagged == Lex(tasks[i].link).body.tls \in TlsClass
            IN  /\ tasks[i].ep.is_tls = flagged
                /\ tasks[i].pc = "tls" => flagged
                /\ tasks[i].tls => flagged
                /\ tasks[i].pc \notin {"send", "recv"}
                /\ tasks[i].sent = <<>>
                /\ tasks[i].rcvd = <<>>
                /\ Done(i) =>
                       (tasks[i].result.status = "alive"
                            <=> (tasks[i].connected /\ (flagged => tasks[i].tls)))

C25_Witness ==
    \E i \in DOMAIN tasks :
        /\ Vmess(i)
        /\ Done(i)
        /\ Lex(tasks[i].link).body.tls = "tls"
        /\ tasks[i].connected
        /\ tasks[i].tls
        /\ tasks[i].result.status = "alive"

\* C26: a probe that has returned, by whatever path, has no open socket; it
\* opened one socket at most, inside its own call, and the sockets open at
\* any moment belong to the probes in flight, one each.
C26_SocketsClosed ==
    \A i \in DOMAIN tasks :
        /\ Done(i) => tasks[i].sock # "open"
        /\ tasks[i].pc = "queued" => (tasks[i].sock = "none" /\ tasks[i].socks = 0)
        /\ tasks[i].socks <= 1
        /\ tasks[i].socks = 1 <=> tasks[i].sock # "none"
        /\ tasks[i].sock = "open" => tasks[i].pc \in {"connect", "tls", "send", "recv"}

C26_Witness ==
    \E i \in DOMAIN tasks :
        /\ Done(i)
        /\ tasks[i].fn = "test_vless_link"
        /\ tasks[i].at = "tls"
        /\ tasks[i].raised = "timeout"
        /\ tasks[i].socks = 1
        /\ tasks[i].sock = "closed"

\* C27: the list stored for a group is as long as the group's candidate
\* list and its i-th result is the result of the i-th candidate, whichever
\* probe returned first.
C27_InputOrder ==
    /\ \A g \in DOMAIN categorized_links :
           LET grp == categorized_links[g]
           IN  grp.protocol \in DOMAIN all_results =>
                   /\ Len(all_results[grp.protocol]) = Len(grp.links)
                   /\ \A i \in DOMAIN grp.links :
                          all_results[grp.protocol][i].link = grp.links[i]
    /\ \A i \in DOMAIN tasks :
           /\ tasks[i].link = categorized_links[idx].links[i]
           /\ tasks[i].result.link = tasks[i].link

C27_Witness ==
    /\ opc = "returned"
    /\ \E p \in DOMAIN all_results :
           /\ Len(all_results[p]) = 2
           /\ all_results[p][1].link # all_results[p][2].link
           /\ all_results[p][1].status = "alive"
           /\ all_results[p][2].error = "Invalid or unparsable SS link format"

=============================================================================
